---- MODULE Spec2Model ----
(***************************************************************************)
(* Batch / workflow execution engine of ai-image-automation.               *)
(*                                                                         *)
(*   APIService.processBatchChat / processBatchImages / processBatchVideos *)
(*     (src/services/apiService.ts): one batch queue drained by            *)
(*     processQueue (100 ms poll) and processItem (retry timers).          *)
(*   BatchProcessor.processTask (src/unnamed/part_000): the in-component   *)
(*     batch runner.                                                       *)
(*   WorkflowExecutor (src/unnamed/part_012, presets in part_015): the     *)
(*     step-by-step workflow runner; its prompt preparation (executeStep)  *)
(*     and its progress computation are also applied on their own.         *)
(*                                                                         *)
(* One behaviour runs one of the subsystems (variable sys) on one queue,   *)
(* task or workflow whose size and configuration are drawn in Init.        *)
(***************************************************************************)
EXTENDS Integers, Sequences, FiniteSets

\* ---- bounds of the model ----
MaxItems == 3          \* a queue / task holds 0..MaxItems items
MaxConcurrent == 2     \* config.maxConcurrent ranges over -1..MaxConcurrent
MaxRetry == 2          \* config.retryCount ranges over 0..MaxRetry
MaxStarts == 2         \* startProcessing is called at most MaxStarts times
MaxSteps == 3          \* a workflow other than the presets has 0..MaxSteps steps
MaxDeps == 1           \* and each of its steps names at most MaxDeps dependencies
MaxTemplate == 2       \* a step template holds 0..MaxTemplate tokens
MaxTotalSteps == 201   \* the progress computation is applied to 1..MaxTotalSteps steps

ConcurrentValues == (0 - 1)..MaxConcurrent

\* what processTask may get on top of an integer in ConcurrentValues: nothing, a half
\* (1.5, -0.5, ...) or 2^32 (4294967296, 4294967297, ...)
ConcurrentPlus == {"0", "1/2", "2^32"}
RetryValues == 0..MaxRetry

VARIABLES
  sys,              \* "api": APIService.processBatch*, "bp": BatchProcessor, "wf": WorkflowExecutor
                    \* through execute, "runWorkflow": runWorkflow applied to a WorkflowConfig,
                    \* "executeStep": one prompt preparation, "progress": one progress computation
  nItems,           \* queue.length / task.data.length
  maxConcurrent,    \* config.maxConcurrent, less maxConcurrentPlus
  maxConcurrentPlus,\* "0" | "1/2" | "2^32": config.maxConcurrent is maxConcurrent plus that number
  configRetryCount, \* config.retryCount
  outcomes,         \* "any": every call may succeed or fail; "fixed": decided by alwaysFails
  alwaysFails,      \* outcomes = "fixed": the calls of item alwaysFails always fail, all others succeed (0: none fails)
  workflowId,       \* the workflowId passed to execute
  \* ---- APIService: BatchTaskItem fields, per item ----
  status,           \* item.status
  result,           \* item.result is set
  error,            \* item.error is set
  retryCount,       \* item.retryCount
  processingSet,    \* the Set created for the queue, which processBatch* holds as processingSet
  awaited,          \* items whose processItem promise the running processQueue pass awaits (Promise.all)
  detached,         \* per item: outstanding capability calls started by retry timers
  timers,           \* per item: pending setTimeout(() => processItem(item), retryDelay)
  poll,             \* "init" | "source" (processBatch* awaiting getDefaultAISource)
                    \* | "wait" (pass awaiting Promise.all) | "timer" (setTimeout(processQueue,100)) | "stopped"
                    \* | "rejected" (processBatch* threw: no queue, or no AI source)
  resolved,         \* the promise returned by processBatch* has resolved
  returned,         \* the BatchResult (or null) it resolved with
  attempts,         \* per item: capability calls started so far
  paused,           \* pauseBatchQueue was called and resumeBatchQueue has not been called since
  hasQueue,         \* batchQueues.has(queueId): FALSE once clearBatchQueue has deleted the queue
  \* ---- BatchProcessor.processTask ----
  task,             \* the task the parent holds: as last passed to onTaskUpdate (initially as created)
  taskIsUpdatedTask,\* the task the parent holds is the object updatedTask itself (line 119), not a copy
  currentTask,      \* useState currentTask: <<>> (null) or <<t>>, t the task processTask received
  taskUpdates,      \* every BatchTask passed to onTaskUpdate so far
  updatedTask,      \* the closure object updatedTask of processTask
  bpItem,           \* per item: "idle" | "inflight" | "delaying" | "settled"
  bpCalls,          \* per item: processFunction calls
  bpPc,             \* "idle" | "racing" (at await Promise.race) | "resumed" (after it) | "done"
  bpNotified,       \* "none" | "complete" (onTaskComplete) | "failed" (onTaskFailed)
  \* ---- BatchProcessor: component state and callbacks ----
  isProcessing,     \* useState isProcessing as rendered
  startCalls,       \* calls of startProcessing so far
  allTasksComplete, \* statuses the task had at the calls of onAllTasksComplete(tasks)
  \* ---- WorkflowExecutor ----
  workflow,         \* the WorkflowConfig runWorkflow is given: id, engine, steps (id, outputKey, dependencies)
  execution,        \* the WorkflowExecution: status, currentStep, progress, results, error
  wfPc,             \* "idle" (before execute) | "rejected" (execute threw: workflow not found)
                    \* | "awaiting" (runWorkflow at await executeStep) | "done"
  adapterCalls,     \* the generateText calls so far: step index and the keys of previousResults
  \* ---- WorkflowExecutor.executeStep: the prompt preparation, applied on its own ----
  template,         \* step.template, a sequence of tokens (plain text or a placeholder {key})
  params,           \* the WorkflowStepParams: key -> value
  previousResults,  \* execution.results as passed to executeStep: key -> value
  prompt,           \* the prompt handed to adapter.generateText
  rendered,         \* executeStep has prepared the prompt
  \* ---- runWorkflow: the progress computation, applied on its own ----
  stepIndex,        \* the loop index i (0-based) of the step that begins
  totalSteps,       \* workflow.steps.length
  stepProgress      \* execution.progress as assigned for that step (-1: not yet)

apiVars == <<status, result, error, retryCount, processingSet, awaited, detached,
             timers, poll, resolved, returned, attempts, paused, hasQueue>>
uiVars == <<isProcessing, startCalls, allTasksComplete>>
bpVars == <<task, taskIsUpdatedTask, currentTask, taskUpdates, updatedTask, bpItem, bpCalls,
            bpPc, bpNotified, isProcessing, startCalls, allTasksComplete>>
wfVars == <<workflow, execution, wfPc, adapterCalls>>
fnVars == <<template, params, previousResults, prompt, rendered,
           stepIndex, totalSteps, stepProgress>>
cfgVars == <<sys, nItems, maxConcurrent, maxConcurrentPlus, configRetryCount, outcomes,
             alwaysFails, workflowId>>
vars == <<sys, nItems, maxConcurrent, maxConcurrentPlus, configRetryCount, outcomes,
          alwaysFails, workflowId,
          status, result, error, retryCount, processingSet, awaited, detached,
          timers, poll, resolved, returned, attempts, paused, hasQueue,
          task, taskIsUpdatedTask, currentTask, taskUpdates, updatedTask, bpItem, bpCalls,
          bpPc, bpNotified,
          isProcessing, startCalls, allTasksComplete,
          workflow, execution, wfPc, adapterCalls,
          template, params, previousResults, prompt, rendered,
          stepIndex, totalSteps, stepProgress>>

Items == 1..nItems

\* what the capability (streamChat / generateImages / generateVideos / processFunction) may do for item i
CanSucceed(i) == outcomes = "any" \/ alwaysFails # i
CanFail(i) == outcomes = "any" \/ alwaysFails = i

Min(a, b) == IF a < b THEN a ELSE b
Max(a, b) == IF a > b THEN a ELSE b

\* ======================= APIService =======================

\* queue.filter(item => item.status === s).length
CountStatus(st, s) == Cardinality({i \in DOMAIN st : st[i] = s})

\* the null that getBatchQueueStatus returns for a queue id batchQueues does not hold
NullResult ==
  [isNull |-> TRUE, totalItems |-> 0, completedItems |-> 0, failedItems |-> 0, errors |-> 0]

\* getBatchQueueStatus: null without the queue (has = batchQueues.has(queueId)),
\* else totalItems, completedItems, failedItems, errors.length
GetBatchQueueStatus(has, st, err) ==
  IF ~has
  THEN NullResult
  ELSE [isNull |-> FALSE,
        totalItems |-> Cardinality(DOMAIN st),
        completedItems |-> CountStatus(st, "completed"),
        failedItems |-> CountStatus(st, "failed"),
        errors |-> Cardinality({i \in DOMAIN err : err[i]})]

\* Array.prototype.slice(0, end): a negative end counts from the back
Slice(seq, end) ==
  LET len == Len(seq)
      k == IF end < 0 THEN Max(len + end, 0) ELSE Min(end, len)
  IN SubSeq(seq, 1, k)

\* queue.filter(item => item.status === 'pending'), in queue order
PendingItems(st) ==
  SelectSeq([i \in 1..Cardinality(DOMAIN st) |-> i], LAMBDA i : st[i] = "pending")

\* variant of SlotsFull: the bound compared with > instead of >=
SlotsFullOffByOne(set, maxC) == Cardinality(set) > maxC

\* processItem's early return: processingSet.size >= config.maxConcurrent
SlotsFull(set, maxC) == Cardinality(set) >= maxC

\* the synchronous head of processItem(item): guard, processingSet.add, status = 'processing'
StartItem(i, q, maxC) ==
  IF SlotsFull(q.set, maxC)
  THEN q
  ELSE [status |-> [q.status EXCEPT ![i] = "processing"],
        set |-> q.set \cup {i},
        started |-> q.started \cup {i}]

\* itemsToProcess.map(processItem): the heads run one after the other
RECURSIVE MapProcessItem(_, _, _)
MapProcessItem(items, q, maxC) ==
  IF items = <<>> THEN q
  ELSE MapProcessItem(Tail(items), StartItem(Head(items), q, maxC), maxC)

\* variant of NextPoll: only hasProcessing is tested, hasMorePending is forgotten
NextPollProcessingOnly(st, set) == IF set # {} THEN "timer" ELSE "stopped"

\* the tail of processQueue after Promise.all: keep polling or stop
NextPoll(st, set) ==
  IF (\E i \in DOMAIN st : st[i] = "pending") \/ set # {} THEN "timer" ELSE "stopped"

\* a processQueue pass ends; the first pass resolves the promise of processBatch*
PassEnd(st, err, set) ==
  /\ poll' = NextPoll(st, set)
  /\ resolved' = TRUE
  /\ returned' = IF resolved THEN returned ELSE GetBatchQueueStatus(hasQueue, st, err)

\* processQueue: pick pending items for the free slots, start them, await them.
\* yields: other code of the caller's tick runs before the pass goes on after
\* await Promise.all (the pass was started by a call of processBatch* with an aiSource)
ProcessQueue(yields) ==
  LET items == Slice(PendingItems(status), maxConcurrent - Cardinality(processingSet))
      q == MapProcessItem(items, [status |-> status, set |-> processingSet, started |-> {}],
                          maxConcurrent)
  IN /\ status' = q.status
     /\ processingSet' = q.set
     /\ attempts' = [i \in Items |-> attempts[i] + (IF i \in q.started THEN 1 ELSE 0)]
     /\ awaited' = q.started
     /\ IF q.started = {} /\ ~yields
        THEN PassEnd(q.status, error, q.set)
        ELSE poll' = "wait" /\ UNCHANGED <<resolved, returned>>
     /\ UNCHANGED <<result, error, retryCount, detached, timers, paused, hasQueue>>

\* what storage.get("ai_sources") may give: a rejection, nothing stored, or a list of
\* one or two sources of which at most the second is the default
StorageReads ==
  {[ok |-> FALSE, sources |-> <<>>], [ok |-> TRUE, sources |-> <<>>],
   [ok |-> TRUE, sources |-> <<[id |-> 1, isDefault |-> FALSE]>>],
   [ok |-> TRUE, sources |-> <<[id |-> 1, isDefault |-> FALSE], [id |-> 2, isDefault |-> TRUE]>>]}

\* getDefaultAISource: sources.find(source => source.isDefault) || sources[0] || null,
\* and null when the read fails; <<>> stands for null
GetDefaultAISource(read) ==
  IF ~read.ok \/ read.sources = <<>>
  THEN <<>>
  ELSE LET defaults == SelectSeq(read.sources, LAMBDA src : src.isDefault)
       IN IF defaults # <<>> THEN <<Head(defaults)>> ELSE <<Head(read.sources)>>

\* processBatchChat / Images / Videos is called: it throws when batchQueues does not hold
\* the queue, else it keeps the queue and its Set; with an aiSource argument it runs the
\* first pass at once, without one it first awaits getDefaultAISource()
ProcessBatch ==
  /\ sys = "api" /\ poll = "init"
  /\ IF hasQueue
     THEN \E aiSourceGiven \in BOOLEAN :
            IF aiSourceGiven
            THEN ProcessQueue(TRUE)
            ELSE /\ poll' = "source"
                 /\ UNCHANGED <<status, result, error, retryCount, processingSet, awaited,
                                detached, timers, resolved, returned, attempts, paused, hasQueue>>
     ELSE /\ poll' = "rejected"
          /\ UNCHANGED <<status, result, error, retryCount, processingSet, awaited, detached,
                         timers, resolved, returned, attempts, paused, hasQueue>>
  /\ UNCHANGED cfgVars /\ UNCHANGED bpVars /\ UNCHANGED wfVars /\ UNCHANGED fnVars

\* the awaited getDefaultAISource() resolves: without a source processBatch* throws,
\* with one it runs the first pass
DefaultSourceResolves ==
  /\ sys = "api" /\ poll = "source"
  /\ \E read \in StorageReads :
       IF GetDefaultAISource(read) = <<>>
       THEN /\ poll' = "rejected"
            /\ UNCHANGED <<status, result, error, retryCount, processingSet, awaited, detached,
                           timers, resolved, returned, attempts, paused, hasQueue>>
       ELSE ProcessQueue(FALSE)
  /\ UNCHANGED cfgVars /\ UNCHANGED bpVars /\ UNCHANGED wfVars /\ UNCHANGED fnVars

\* the first pass, started by the call of processBatch* itself, had nothing to await:
\* it goes on after await Promise.all([]) once the caller's code has run
EmptyPassResumes ==
  /\ sys = "api" /\ poll = "wait" /\ awaited = {}
  /\ PassEnd(status, error, processingSet)
  /\ UNCHANGED <<status, result, error, retryCount, processingSet, awaited, detached,
                 timers, attempts, paused, hasQueue>>
  /\ UNCHANGED cfgVars /\ UNCHANGED bpVars /\ UNCHANGED wfVars /\ UNCHANGED fnVars

\* the 100 ms timer set by the previous pass fires
PollTimer ==
  /\ sys = "api" /\ poll = "timer"
  /\ ProcessQueue(FALSE)
  /\ UNCHANGED cfgVars /\ UNCHANGED bpVars /\ UNCHANGED wfVars /\ UNCHANGED fnVars

\* the retry timer of item i fires: processItem(item)
RetryTimer(i) ==
  /\ sys = "api" /\ timers[i] > 0
  /\ timers' = [timers EXCEPT ![i] = @ - 1]
  /\ LET q == StartItem(i, [status |-> status, set |-> processingSet, started |-> {}],
                        maxConcurrent)
     IN /\ status' = q.status
        /\ processingSet' = q.set
        /\ attempts' = [attempts EXCEPT ![i] = @ + (IF i \in q.started THEN 1 ELSE 0)]
        /\ detached' = [detached EXCEPT ![i] = @ + (IF i \in q.started THEN 1 ELSE 0)]
  /\ UNCHANGED <<result, error, retryCount, awaited, poll, resolved, returned, paused, hasQueue>>
  /\ UNCHANGED cfgVars /\ UNCHANGED bpVars /\ UNCHANGED wfVars /\ UNCHANGED fnVars

\* variant of CatchError: the catch block does not record the message
CatchErrorDropped(err, i) == err

\* catch block: item.error = error.message
CatchError(err, i) == [err EXCEPT ![i] = TRUE]

\* catch block: retry while item.retryCount < config.retryCount
RetryAgain(rc, cfg) == rc < cfg

\* an outstanding call of item i leaves the set of outstanding calls;
\* fromPass: it is the call the running pass awaits. The pass continues when its last call settles.
CallSettles(i, fromPass, st, err, set) ==
  IF fromPass
  THEN /\ i \in awaited
       /\ awaited' = awaited \ {i}
       /\ detached' = detached
       /\ IF awaited \ {i} = {}
          THEN PassEnd(st, err, set)
          ELSE UNCHANGED <<poll, resolved, returned>>
  ELSE /\ detached[i] > 0
       /\ detached' = [detached EXCEPT ![i] = @ - 1]
       /\ UNCHANGED <<awaited, poll, resolved, returned>>

\* the capability call of item i returns a result: try block end + finally
CallSucceeds(i) ==
  /\ sys = "api"
  /\ CanSucceed(i)
  /\ \E fromPass \in BOOLEAN :
       LET st == [status EXCEPT ![i] = "completed"]
           set == processingSet \ {i}
       IN /\ CallSettles(i, fromPass, st, error, set)
          /\ status' = st
          /\ processingSet' = set
  /\ result' = [result EXCEPT ![i] = TRUE]
  /\ UNCHANGED <<error, retryCount, timers, attempts, paused, hasQueue>>
  /\ UNCHANGED cfgVars /\ UNCHANGED bpVars /\ UNCHANGED wfVars /\ UNCHANGED fnVars

\* the capability call of item i fails: catch + finally
CallFails(i) ==
  /\ sys = "api"
  /\ CanFail(i)
  /\ \E fromPass \in BOOLEAN :
       LET rc == retryCount[i] + 1
           st == [status EXCEPT ![i] = IF RetryAgain(rc, configRetryCount)
                                       THEN "pending" ELSE "failed"]
           set == processingSet \ {i}
       IN /\ CallSettles(i, fromPass, st, CatchError(error, i), set)
          /\ status' = st
          /\ processingSet' = set
          /\ retryCount' = [retryCount EXCEPT ![i] = rc]
          /\ timers' = [timers EXCEPT ![i] = @ + (IF RetryAgain(rc, configRetryCount) THEN 1 ELSE 0)]
  /\ error' = CatchError(error, i)
  /\ UNCHANGED <<result, attempts, paused, hasQueue>>
  /\ UNCHANGED cfgVars /\ UNCHANGED bpVars /\ UNCHANGED wfVars /\ UNCHANGED fnVars

\* clearBatchQueue(queueId): batchQueues and processingQueues forget the queue. A running
\* processBatch* keeps the queue array and the Set it looked up when it started.
ClearBatchQueue ==
  /\ sys = "api"
  /\ hasQueue
  /\ hasQueue' = FALSE
  /\ UNCHANGED <<status, result, error, retryCount, processingSet, awaited, detached,
                 timers, poll, resolved, returned, attempts, paused>>
  /\ UNCHANGED cfgVars /\ UNCHANGED bpVars /\ UNCHANGED wfVars /\ UNCHANGED fnVars

\* pauseBatchQueue's forEach: a pending item is assigned 'pending' again
PauseItem(s) == IF s = "pending" THEN "pending" ELSE s

\* pauseBatchQueue(queueId) while the queue is being processed. It changes no field of
\* the queue, so the calls are followed only in the runs with fixed call outcomes.
PauseBatchQueue ==
  /\ sys = "api" /\ poll # "init" /\ outcomes = "fixed"
  /\ ~paused
  /\ status' = [i \in Items |-> IF hasQueue THEN PauseItem(status[i]) ELSE status[i]]
  /\ paused' = TRUE
  /\ UNCHANGED <<result, error, retryCount, processingSet, awaited, detached,
                 timers, poll, resolved, returned, attempts, hasQueue>>
  /\ UNCHANGED cfgVars /\ UNCHANGED bpVars /\ UNCHANGED wfVars /\ UNCHANGED fnVars

\* resumeBatchQueue(queueId, config): hasPendingItems is computed, the branch is empty
ResumeBatchQueue ==
  /\ sys = "api" /\ outcomes = "fixed"
  /\ paused
  /\ paused' = FALSE
  /\ UNCHANGED <<status, result, error, retryCount, processingSet, awaited, detached,
                 timers, poll, resolved, returned, attempts, hasQueue>>
  /\ UNCHANGED cfgVars /\ UNCHANGED bpVars /\ UNCHANGED wfVars /\ UNCHANGED fnVars

\* ======================= BatchProcessor.processTask =======================

\* the pairs (a, b), b <= 202, whose quotient a / b * 100 is an exact half that the
\* double arithmetic of (a / b) * 100 leaves just below the half
HalfLost ==
  {<<23, 40>>, <<46, 80>>, <<69, 120>>, <<92, 160>>,
   <<29, 200>>, <<57, 200>>, <<113, 200>>, <<115, 200>>}

\* Math.round((completedItems / totalItems) * 100), totalItems > 0
Progress(completedItems, totalItems) ==
  (200 * completedItems + totalItems) \div (2 * totalItems)
    - (IF <<completedItems, totalItems>> \in HalfLost THEN 1 ELSE 0)

\* new Array(config.maxConcurrent) throws RangeError unless the number maxC + plus is an
\* integer from 0 to 2^32 - 1
InvalidArrayLength(maxC, plus) ==
  \/ plus = "1/2"
  \/ plus = "0" /\ maxC < 0
  \/ plus = "2^32" /\ maxC >= 0

\* the first dispatch loop: for (i = 0; i < Math.min(maxConcurrent, totalItems); i++)
FirstBatch(maxC, totalItems) == 1..Min(maxC, totalItems)

\* variant of NoPromises: the loop is entered even with an empty promises array
NoPromisesNever(dispatched) == FALSE

\* while (promises.length > 0) is skipped when nothing was dispatched
NoPromises(dispatched) == dispatched = {}

\* variant of CompletedItems: the counter taken from results.length after results[index] = result
CompletedItemsByLength(t, i) == Max(t.completedItems, i)

\* updatedTask.completedItems++ after results[index] = result (index i - 1)
CompletedItems(t, i) == t.completedItems + 1

\* task with the fields processTask resets: status RUNNING, progress 0, counters 0
RunningTask(t) ==
  [t EXCEPT !.status = "running", !.progress = 0, !.completedItems = 0, !.failedItems = 0]

\* processTask(task) up to its first await (or to its end when it never awaits).
\* onTaskUpdate(updatedTask) hands the parent the object itself; failedTask and finalTask are copies.
ProcessTask ==
  /\ sys = "bp" /\ bpPc = "idle" /\ task.status = "pending"
  /\ currentTask' = <<task>>
  /\ updatedTask' = RunningTask(task)
  /\ IF InvalidArrayLength(maxConcurrent, maxConcurrentPlus)
     THEN \* catch: failedTask
          /\ task' = [RunningTask(task) EXCEPT !.status = "failed"]
          /\ taskUpdates' = taskUpdates \cup {RunningTask(task), task'}
          /\ bpPc' = "done"
          /\ bpNotified' = "failed"
          /\ taskIsUpdatedTask' = FALSE
          /\ UNCHANGED <<bpItem, bpCalls>>
     ELSE LET dispatched == FirstBatch(maxConcurrent, nItems)
          IN /\ bpItem' = [i \in Items |-> IF i \in dispatched THEN "inflight" ELSE "idle"]
             /\ bpCalls' = [i \in Items |-> IF i \in dispatched THEN 1 ELSE 0]
             /\ IF NoPromises(dispatched)
                THEN \* finalTask
                     /\ task' = [RunningTask(task) EXCEPT !.status = "completed", !.progress = 100]
                     /\ taskUpdates' = taskUpdates \cup {RunningTask(task), task'}
                     /\ bpPc' = "done"
                     /\ bpNotified' = "complete"
                     /\ taskIsUpdatedTask' = FALSE
                ELSE /\ task' = RunningTask(task)
                     /\ taskUpdates' = taskUpdates \cup {task'}
                     /\ bpPc' = "racing"
                     /\ taskIsUpdatedTask' = TRUE
                     /\ UNCHANGED bpNotified
  /\ UNCHANGED cfgVars /\ UNCHANGED apiVars /\ UNCHANGED uiVars /\ UNCHANGED wfVars /\ UNCHANGED fnVars

\* some promise in promises has settled: Promise.race(promises) is resolved
RaceSettled == \E i \in Items : bpItem[i] = "settled"

\* processFunction resolves for item i: completedItems++, progress, onTaskUpdate({...updatedTask})
ItemSucceeds(i) ==
  /\ sys = "bp" /\ bpItem[i] = "inflight"
  /\ CanSucceed(i)
  /\ updatedTask' = [updatedTask EXCEPT
                       !.completedItems = CompletedItems(updatedTask, i),
                       !.progress = Progress(CompletedItems(updatedTask, i), nItems)]
  /\ task' = updatedTask'
  /\ taskIsUpdatedTask' = FALSE
  /\ taskUpdates' = taskUpdates \cup {updatedTask'}
  /\ bpItem' = [bpItem EXCEPT ![i] = "settled"]
  /\ UNCHANGED <<currentTask, bpPc, bpCalls, bpNotified>>
  /\ UNCHANGED cfgVars /\ UNCHANGED apiVars /\ UNCHANGED uiVars /\ UNCHANGED wfVars /\ UNCHANGED fnVars

\* processFunction rejects for item i: failedItems++, then the retryDelay wait when retryCount > 0.
\* onTaskUpdate is not called; the increment shows in the parent's task while that is updatedTask itself.
ItemFails(i) ==
  /\ sys = "bp" /\ bpItem[i] = "inflight"
  /\ CanFail(i)
  /\ updatedTask' = [updatedTask EXCEPT !.failedItems = @ + 1]
  /\ task' = IF taskIsUpdatedTask THEN updatedTask' ELSE task
  /\ bpItem' = [bpItem EXCEPT ![i] = IF configRetryCount > 0 THEN "delaying" ELSE "settled"]
  /\ UNCHANGED <<taskIsUpdatedTask, currentTask, taskUpdates, bpPc, bpCalls, bpNotified>>
  /\ UNCHANGED cfgVars /\ UNCHANGED apiVars /\ UNCHANGED uiVars /\ UNCHANGED wfVars /\ UNCHANGED fnVars

\* the retryDelay timer of a failed item fires: its processItem promise settles.
\* A timer is a macrotask: it cannot run once the while loop below turns in microtasks.
RetryDelayElapsed(i) ==
  /\ sys = "bp" /\ bpItem[i] = "delaying"
  /\ ~RaceSettled
  /\ bpItem' = [bpItem EXCEPT ![i] = "settled"]
  /\ UNCHANGED <<task, taskIsUpdatedTask, currentTask, taskUpdates, updatedTask, bpPc, bpCalls, bpNotified>>
  /\ UNCHANGED cfgVars /\ UNCHANGED apiVars /\ UNCHANGED uiVars /\ UNCHANGED wfVars /\ UNCHANGED fnVars

\* await Promise.race(promises) resumes: some promise of the array has settled
RaceResolves ==
  /\ sys = "bp" /\ bpPc = "racing"
  /\ RaceSettled
  /\ bpPc' = "resumed"
  /\ UNCHANGED <<task, taskIsUpdatedTask, currentTask, taskUpdates, updatedTask, bpItem, bpCalls, bpNotified>>
  /\ UNCHANGED cfgVars /\ UNCHANGED apiVars /\ UNCHANGED uiVars /\ UNCHANGED wfVars /\ UNCHANGED fnVars

\* the rest of the loop body: promises.findIndex(p => p === undefined) is -1 for an array of
\* promises, so nothing is spliced and nothing dispatched; promises.length > 0 still holds
\* and the loop returns to await Promise.race(promises)
RefillSlot ==
  /\ sys = "bp" /\ bpPc = "resumed"
  /\ bpPc' = "racing"
  /\ UNCHANGED <<task, taskIsUpdatedTask, currentTask, taskUpdates, updatedTask, bpItem, bpCalls, bpNotified>>
  /\ UNCHANGED cfgVars /\ UNCHANGED apiVars /\ UNCHANGED uiVars /\ UNCHANGED wfVars /\ UNCHANGED fnVars

\* ======================= BatchProcessor: startProcessing / stopProcessing =======================

\* tasks.filter(task => task.status === BatchTaskStatus.PENDING); the model holds one task
PendingTasks(t) == IF t.status = "pending" THEN <<t>> ELSE <<>>

\* startProcessing(). The callback closes over the rendered isProcessing: past the early
\* return it is false, so `if (!isProcessing) break` leaves the loop at its first
\* iteration, before processTask; no await is reached, the two setIsProcessing calls
\* are batched and the last one (false) is rendered.
StartProcessing ==
  /\ sys = "bp" /\ startCalls < MaxStarts
  /\ startCalls' = startCalls + 1
  /\ IF isProcessing
     THEN UNCHANGED <<isProcessing, allTasksComplete>>
     ELSE /\ isProcessing' = FALSE
          /\ allTasksComplete' = IF PendingTasks(task) = <<>>
                                 THEN allTasksComplete
                                 ELSE allTasksComplete \cup {task.status}
  /\ UNCHANGED <<task, taskIsUpdatedTask, currentTask, taskUpdates, updatedTask, bpItem,
                 bpCalls, bpPc, bpNotified>>
  /\ UNCHANGED cfgVars /\ UNCHANGED apiVars /\ UNCHANGED wfVars /\ UNCHANGED fnVars

\* pauseProcessing(): setIsProcessing(false); with a currentTask,
\* onTaskUpdate({...currentTask, status: PAUSED})
PauseProcessing ==
  /\ sys = "bp"
  /\ isProcessing' = FALSE
  /\ IF currentTask # <<>>
     THEN /\ task' = [currentTask[1] EXCEPT !.status = "paused"]
          /\ taskIsUpdatedTask' = FALSE
          /\ taskUpdates' = taskUpdates \cup {task'}
     ELSE UNCHANGED <<task, taskIsUpdatedTask, taskUpdates>>
  /\ UNCHANGED <<currentTask, updatedTask, bpItem, bpCalls, bpPc, bpNotified, startCalls,
                 allTasksComplete>>
  /\ UNCHANGED cfgVars /\ UNCHANGED apiVars /\ UNCHANGED wfVars /\ UNCHANGED fnVars

\* stopProcessing(): setIsProcessing(false), setCurrentTask(null); every RUNNING task is
\* passed to onTaskUpdate as a copy with status CANCELLED
StopProcessing ==
  /\ sys = "bp"
  /\ isProcessing' = FALSE
  /\ currentTask' = <<>>
  /\ IF task.status = "running"
     THEN /\ task' = [task EXCEPT !.status = "cancelled"]
          /\ taskIsUpdatedTask' = FALSE
          /\ taskUpdates' = taskUpdates \cup {task'}
     ELSE UNCHANGED <<task, taskIsUpdatedTask, taskUpdates>>
  /\ UNCHANGED <<updatedTask, bpItem, bpCalls, bpPc, bpNotified, startCalls, allTasksComplete>>
  /\ UNCHANGED cfgVars /\ UNCHANGED apiVars /\ UNCHANGED wfVars /\ UNCHANGED fnVars

\* ======================= WorkflowExecutor =======================

\* DEFAULT_WORKFLOWS[0]: id, engine and, per step, id, outputKey and dependencies
ContentCreation ==
  [id |-> "content-creation", engine |-> "doubao",
   steps |-> <<
     [id |-> "generate-content", outputKey |-> "content", dependencies |-> <<>>],
     [id |-> "generate-title", outputKey |-> "title",
      dependencies |-> <<"generate-content">>],
     [id |-> "generate-description", outputKey |-> "description",
      dependencies |-> <<"generate-content", "generate-title">>] >>]

\* DEFAULT_WORKFLOWS[1]
VideoProduction ==
  [id |-> "video-production", engine |-> "jimeng",
   steps |-> <<
     [id |-> "generate-content", outputKey |-> "content", dependencies |-> <<>>],
     [id |-> "generate-video-scenes", outputKey |-> "videoScenes",
      dependencies |-> <<"generate-content">>],
     [id |-> "generate-title", outputKey |-> "title",
      dependencies |-> <<"generate-content">>],
     [id |-> "generate-description", outputKey |-> "description",
      dependencies |-> <<"generate-content", "generate-title">>],
     [id |-> "generate-cover", outputKey |-> "coverPrompt",
      dependencies |-> <<"generate-title", "generate-content">>] >>]

DEFAULT_WORKFLOWS == {ContentCreation, VideoProduction}

\* DEFAULT_WORKFLOWS.find(w => w.id === workflowId): the empty set stands for undefined
FindWorkflow(id) == {w \in DEFAULT_WORKFLOWS : w.id = id}

\* the workflowId values execute is called with: the two presets and an id that is not one
WorkflowIds == {"content-creation", "video-production", "custom"}

\* the value of workflow before execute has looked one up
NoWorkflow == [id |-> "", engine |-> "", steps |-> <<>>]

\* step ids and output keys of the other workflows (MaxSteps <= 5)
StepIds == <<"s1", "s2", "s3", "s4", "s5">>
OutputKeys == <<"k1", "k2", "k3", "k4", "k5">>

\* the names a dependency of an n-step workflow may use: s1, k1, s2, k2, ...
NamePool(n) ==
  [p \in 1..(2 * n) |-> IF p % 2 = 1 THEN StepIds[(p + 1) \div 2] ELSE OutputKeys[p \div 2]]

RECURSIVE NameList(_, _)
NameList(pool, S) ==
  IF S = {} THEN <<>>
  ELSE LET m == CHOOSE x \in S : \A y \in S : x <= y
       IN <<pool[m]>> \o NameList(pool, S \ {m})

\* WorkflowStep.dependencies: up to MaxDeps distinct names
DependencyLists(n) ==
  {NameList(NamePool(n), S) : S \in {T \in SUBSET (1..(2 * n)) : Cardinality(T) <= MaxDeps}}

\* WorkflowStep.outputKey of the steps of an n-step workflow, as indices into OutputKeys:
\* every step its own key, or one later step with the key of the first step
OutputKeyChoices(n) ==
  {[k \in 1..n |-> k]} \cup {[k \in 1..n |-> IF k = j THEN 1 ELSE k] : j \in 2..n}

\* WorkflowConfig values with 0..MaxSteps steps: step k has id sk and an outputKey
\* that is its own (kk) or that of the first step (k1)
CustomWorkflows ==
  UNION {{[id |-> "custom", engine |-> "doubao",
           steps |-> [k \in 1..n |-> [id |-> StepIds[k], outputKey |-> OutputKeys[key[k]],
                                      dependencies |-> d[k]]]]
          : d \in [1..n -> DependencyLists(n)], key \in OutputKeyChoices(n)}
         : n \in 0..MaxSteps}

Workflows == DEFAULT_WORKFLOWS \cup CustomWorkflows

\* execution.error: none, `依赖步骤 ${dep} 未完成`, or the message thrown by the call of a step
NoError == [kind |-> "none", dep |-> "", step |-> 0]
DependencyError(dep) == [kind |-> "dependency", dep |-> dep, step |-> 0]

\* variant of CatchMessage: the catch block stores a fixed text
CatchMessageUnknown(i) == [kind |-> "unknown", dep |-> "", step |-> 0]

\* catch block of runWorkflow: error.message of the Error thrown by step i's call
CatchMessage(i) == [kind |-> "step", dep |-> "", step |-> i]

\* execute(): the execution instance as created
NewExecution ==
  [status |-> "pending", currentStep |-> 0, progress |-> 0,
   results |-> [k \in {} |-> ""], error |-> NoError]

\* variant of Unfinished: the dependency test always passes
UnfinishedNever(results, dep) == FALSE

\* !execution.results[dep]: no entry under that key, or an empty string
Unfinished(results, dep) == dep \notin DOMAIN results \/ results[dep] = ""

\* the dependencies for which the check throws, in list order
MissingDependencies(step, results) ==
  SelectSeq(step.dependencies, LAMBDA dep : Unfinished(results, dep))

\* variant of ResultKey: the result is stored under the step's id
ResultKeyById(step) == step.id

\* execution.results[step.outputKey] = result
ResultKey(step) == step.outputKey

Publish(results, key, value) ==
  [k \in DOMAIN results \cup {key} |-> IF k = key THEN value ELSE results[k]]

\* one turn of the for loop of runWorkflow for step i (1-based) of the workflow wf,
\* starting from the execution exec: the loop ends ('completed'), the dependency check
\* throws ('failed'), or executeStep calls adapter.generateText and runWorkflow awaits it
RunStep(i, exec, wf) ==
  LET n == Len(wf.steps)
  IN IF i > n
     THEN /\ execution' = [exec EXCEPT !.status = "completed", !.progress = 100]
          /\ wfPc' = "done"
          /\ UNCHANGED adapterCalls
     ELSE LET step == wf.steps[i]
              missing == MissingDependencies(step, exec.results)
          IN IF missing # <<>>
             THEN /\ execution' = [exec EXCEPT !.status = "failed",
                                               !.error = DependencyError(Head(missing))]
                  /\ wfPc' = "done"
                  /\ UNCHANGED adapterCalls
             ELSE /\ execution' = [exec EXCEPT !.currentStep = i - 1,
                                               !.progress = Progress(i - 1, n)]
                  /\ adapterCalls' = Append(adapterCalls,
                                            [step |-> i, previousResults |-> DOMAIN exec.results])
                  /\ wfPc' = "awaiting"

\* execute(workflowId, params): throws when DEFAULT_WORKFLOWS holds no workflow of that id;
\* else it creates the execution, stores it in executions and calls runWorkflow, which
\* runs up to its first await before execute returns
Execute ==
  /\ sys = "wf" /\ wfPc = "idle"
  /\ LET found == FindWorkflow(workflowId)
     IN IF found = {}
        THEN /\ wfPc' = "rejected"
             /\ UNCHANGED <<workflow, execution, adapterCalls>>
        ELSE /\ workflow' = CHOOSE w \in found : TRUE
             /\ RunStep(1, [NewExecution EXCEPT !.status = "running"], workflow')
  /\ UNCHANGED cfgVars /\ UNCHANGED apiVars /\ UNCHANGED bpVars /\ UNCHANGED fnVars

\* runWorkflow(workflow, execution, params) applied to a WorkflowConfig and an execution
\* as execute creates it, up to its first await. That execution is not in executions.
RunWorkflow ==
  /\ sys = "runWorkflow" /\ wfPc = "idle"
  /\ RunStep(1, [NewExecution EXCEPT !.status = "running"], workflow)
  /\ UNCHANGED workflow
  /\ UNCHANGED cfgVars /\ UNCHANGED apiVars /\ UNCHANGED bpVars /\ UNCHANGED fnVars

\* JimengEngineAdapter.generateText always throws; the other adapters return the response text
GenerateTextCanSucceed(i) == workflow.engine # "jimeng" /\ CanSucceed(i)
GenerateTextCanFail(i) == workflow.engine = "jimeng" \/ CanFail(i)

\* what textResponse.content may be: some text, or the empty string
Contents == IF outcomes = "any" THEN {"text", ""} ELSE {"text"}

\* the awaited generateText call of the current step resolves: publish, next turn of the loop
StepSucceeds ==
  /\ sys \in {"wf", "runWorkflow"} /\ wfPc = "awaiting"
  /\ LET i == execution.currentStep + 1
     IN /\ GenerateTextCanSucceed(i)
        /\ \E content \in Contents :
             RunStep(i + 1, [execution EXCEPT
                               !.results = Publish(@, ResultKey(workflow.steps[i]), content)],
                     workflow)
  /\ UNCHANGED workflow
  /\ UNCHANGED cfgVars /\ UNCHANGED apiVars /\ UNCHANGED bpVars /\ UNCHANGED fnVars

\* the awaited generateText call of the current step rejects: catch block of runWorkflow
StepFails ==
  /\ sys \in {"wf", "runWorkflow"} /\ wfPc = "awaiting"
  /\ LET i == execution.currentStep + 1
     IN /\ GenerateTextCanFail(i)
        /\ execution' = [execution EXCEPT !.status = "failed", !.error = CatchMessage(i)]
  /\ wfPc' = "done"
  /\ UNCHANGED <<workflow, adapterCalls>>
  /\ UNCHANGED cfgVars /\ UNCHANGED apiVars /\ UNCHANGED bpVars /\ UNCHANGED fnVars

\* cancel(): execution.error = '用户取消'
CancelError == [kind |-> "cancel", dep |-> "", step |-> 0]

\* pause, resume and cancel look the execution up in executions, which holds the
\* executions execute has created.

\* executions.get(executionId) finds the execution: execute has stored it
InExecutions == sys = "wf" /\ wfPc \notin {"idle", "rejected"}

\* variant of Pausable: pause does not test the status
PausableAnyStatus(st) == TRUE

\* the status test of pause: execution.status === 'running'
Pausable(st) == st = "running"

\* pause(executionId): a running execution is marked 'paused'; runWorkflow is not told
Pause ==
  /\ InExecutions /\ Pausable(execution.status)
  /\ execution' = [execution EXCEPT !.status = "paused"]
  /\ UNCHANGED <<workflow, wfPc, adapterCalls>>
  /\ UNCHANGED cfgVars /\ UNCHANGED apiVars /\ UNCHANGED bpVars /\ UNCHANGED fnVars

\* resume(executionId) on a paused execution: returns false, nothing is changed
Resume ==
  /\ InExecutions /\ execution.status = "paused"
  /\ UNCHANGED wfVars
  /\ UNCHANGED cfgVars /\ UNCHANGED apiVars /\ UNCHANGED bpVars /\ UNCHANGED fnVars

\* cancel(executionId): a running or paused execution is marked 'failed'
Cancel ==
  /\ InExecutions /\ execution.status \in {"running", "paused"}
  /\ execution' = [execution EXCEPT !.status = "failed", !.error = CancelError]
  /\ UNCHANGED <<workflow, wfPc, adapterCalls>>
  /\ UNCHANGED cfgVars /\ UNCHANGED apiVars /\ UNCHANGED bpVars /\ UNCHANGED fnVars

\* ======================= executeStep: prompt preparation =======================

\* the text {key} in a template
Placeholder(key) == "{" \o key \o "}"

\* String.prototype.replace reads $$ in the replacement string as one $
ReplacementText(value) ==
  [k \in 1..Len(value) |-> IF value[k] = "$$" THEN "$" ELSE value[k]]

\* prompt.replace(new RegExp(`{${key}}`, 'g'), String(value))
RECURSIVE ReplaceAll(_, _, _)
ReplaceAll(text, key, value) ==
  IF text = <<>> THEN <<>>
  ELSE (IF Head(text) = Placeholder(key) THEN ReplacementText(value) ELSE <<Head(text)>>)
       \o ReplaceAll(Tail(text), key, value)

\* the keys of the model's params and results, in insertion order
ParamKeys == <<"topic", "content">>
ResultKeys == <<"content", "title">>

\* a sequence without its repeated elements, first occurrences kept
RECURSIVE FirstOccurrences(_, _)
FirstOccurrences(seq, seen) ==
  IF seq = <<>> THEN <<>>
  ELSE IF Head(seq) \in seen THEN FirstOccurrences(Tail(seq), seen)
  ELSE <<Head(seq)>> \o FirstOccurrences(Tail(seq), seen \cup {Head(seq)})

\* Object.entries(templateData): the keys of {...params, ...previousResults, content, title}
TemplateKeys(par, res) ==
  FirstOccurrences(SelectSeq(ParamKeys, LAMBDA k : k \in DOMAIN par)
                     \o SelectSeq(ResultKeys, LAMBDA k : k \in DOMAIN res)
                     \o <<"content", "title">>, {})

\* templateData[key]: content and title are previousResults.content || '' and
\* previousResults.title || '', a result overrides a param of the same key
TemplateData(par, res, key) ==
  IF key \in {"content", "title"}
  THEN (IF key \in DOMAIN res THEN res[key] ELSE <<>>)
  ELSE IF key \in DOMAIN res THEN res[key] ELSE par[key]

\* the forEach over the entries, applied to the prompt so far
RECURSIVE ReplaceEntries(_, _, _, _)
ReplaceEntries(text, keys, par, res) ==
  IF keys = <<>> THEN text
  ELSE ReplaceEntries(ReplaceAll(text, Head(keys), TemplateData(par, res, Head(keys))),
                      Tail(keys), par, res)

\* the tokens a template is made of, and the templates of 0..MaxTemplate tokens
TemplateTokens == {"Title for: ", "{content}", "{title}", "{topic}", "{x}"}
Templates == UNION {[1..n -> TemplateTokens] : n \in 0..MaxTemplate}

\* WorkflowStepParams: topic and content, each given or not
ParamValue(key) == IF key = "topic" THEN <<"Tech">> ELSE <<"Draft">>
ParamSets == {[k \in P |-> ParamValue(k)] : P \in SUBSET {"topic", "content"}}

\* results of earlier steps: some text, text holding $$, text holding {title}, the empty string
ResultValues == {<<"Hello">>, <<"$$">>, <<"{title}">>, <<>>}
ResultSets == UNION {[R -> ResultValues] : R \in SUBSET {"content", "title"}}

\* executeStep(step, adapter, previousResults, params) up to the call of generateText
ExecuteStep ==
  /\ sys = "executeStep" /\ ~rendered
  /\ prompt' = ReplaceEntries(template, TemplateKeys(params, previousResults),
                              params, previousResults)
  /\ rendered' = TRUE
  /\ UNCHANGED <<template, params, previousResults, stepIndex, totalSteps, stepProgress>>
  /\ UNCHANGED cfgVars /\ UNCHANGED apiVars /\ UNCHANGED bpVars /\ UNCHANGED wfVars

\* runWorkflow: execution.progress = Math.round((i / workflow.steps.length) * 100)
StepBegins ==
  /\ sys = "progress" /\ stepProgress = 0 - 1
  /\ stepProgress' = Progress(stepIndex, totalSteps)
  /\ UNCHANGED <<template, params, previousResults, prompt, rendered, stepIndex, totalSteps>>
  /\ UNCHANGED cfgVars /\ UNCHANGED apiVars /\ UNCHANGED bpVars /\ UNCHANGED wfVars

\* ======================= Init / Next =======================

\* createBatchQueue: every item pending with retryCount 0; createBatchTask: a PENDING task
Init ==
  /\ sys \in {"api", "bp", "wf", "runWorkflow", "executeStep", "progress"}
  /\ nItems \in (IF sys \in {"api", "bp"} THEN 0..MaxItems ELSE {0})
  /\ maxConcurrentPlus \in (IF sys = "bp" THEN ConcurrentPlus ELSE {"0"})
  /\ maxConcurrent \in (IF maxConcurrentPlus = "2^32" THEN 0..MaxConcurrent
                        ELSE IF sys \in {"api", "bp"} THEN ConcurrentValues ELSE {1})
  /\ configRetryCount \in (IF sys \in {"api", "bp"} THEN RetryValues ELSE {0})
  /\ workflowId \in (IF sys = "wf" THEN WorkflowIds ELSE {""})
  /\ workflow \in (IF sys = "runWorkflow" THEN Workflows ELSE {NoWorkflow})
  /\ outcomes \in (IF sys \in {"api", "bp", "wf", "runWorkflow"} THEN {"any", "fixed"} ELSE {"fixed"})
  /\ alwaysFails \in (IF outcomes = "any" THEN {0}
                      ELSE IF sys = "runWorkflow" THEN 0..Len(workflow.steps)
                      ELSE IF sys = "wf"
                      THEN UNION {0..Len(w.steps) : w \in FindWorkflow(workflowId)} \cup {0}
                      ELSE 0..nItems)
  /\ template \in (IF sys = "executeStep" THEN Templates ELSE {<<>>})
  /\ params \in (IF sys = "executeStep" THEN ParamSets ELSE {<<>>})
  /\ previousResults \in (IF sys = "executeStep" THEN ResultSets ELSE {<<>>})
  /\ prompt = <<>>
  /\ rendered = FALSE
  /\ totalSteps \in (IF sys = "progress" THEN 1..MaxTotalSteps ELSE {1})
  /\ stepIndex \in (IF sys = "progress" THEN 0..(totalSteps - 1) ELSE {0})
  /\ stepProgress = 0 - 1
  /\ status = [i \in 1..nItems |-> "pending"]
  /\ result = [i \in 1..nItems |-> FALSE]
  /\ error = [i \in 1..nItems |-> FALSE]
  /\ retryCount = [i \in 1..nItems |-> 0]
  /\ processingSet = {}
  /\ awaited = {}
  /\ detached = [i \in 1..nItems |-> 0]
  /\ timers = [i \in 1..nItems |-> 0]
  /\ poll = "init"
  /\ resolved = FALSE
  /\ returned = NullResult
  /\ attempts = [i \in 1..nItems |-> 0]
  /\ paused = FALSE
  /\ hasQueue = TRUE
  /\ task = [status |-> "pending", progress |-> 0, totalItems |-> nItems,
             completedItems |-> 0, failedItems |-> 0]
  /\ taskIsUpdatedTask = FALSE
  /\ currentTask = <<>>
  /\ taskUpdates = {}
  /\ updatedTask = task
  /\ bpItem = [i \in 1..nItems |-> "idle"]
  /\ bpCalls = [i \in 1..nItems |-> 0]
  /\ bpPc = "idle"
  /\ bpNotified = "none"
  /\ isProcessing = FALSE
  /\ startCalls = 0
  /\ allTasksComplete = {}
  /\ execution = NewExecution
  /\ wfPc = "idle"
  /\ adapterCalls = <<>>

Next ==
  \/ ProcessBatch
  \/ DefaultSourceResolves
  \/ EmptyPassResumes
  \/ PollTimer
  \/ \E i \in Items : RetryTimer(i)
  \/ \E i \in Items : CallSucceeds(i)
  \/ \E i \in Items : CallFails(i)
  \/ ClearBatchQueue
  \/ PauseBatchQueue
  \/ ResumeBatchQueue
  \/ ProcessTask
  \/ \E i \in Items : ItemSucceeds(i)
  \/ \E i \in Items : ItemFails(i)
  \/ \E i \in Items : RetryDelayElapsed(i)
  \/ RaceResolves
  \/ RefillSlot
  \/ StartProcessing
  \/ PauseProcessing
  \/ StopProcessing
  \/ Execute
  \/ RunWorkflow
  \/ StepSucceeds
  \/ StepFails
  \/ Pause
  \/ Resume
  \/ Cancel
  \/ ExecuteStep
  \/ StepBegins

Spec == Init /\ [][Next]_vars

\* every outstanding call settles and every timer fires, as far as the event loop lets
\* them: once a promise of processTask's promises array has settled, the while loop
\* around await Promise.race(promises) turns in microtasks only, so the processFunction
\* calls still in flight, which settle through timers or the network, are not promised to settle
Fairness ==
  /\ WF_vars(ProcessBatch)
  /\ WF_vars(DefaultSourceResolves)
  /\ WF_vars(EmptyPassResumes)
  /\ WF_vars(PollTimer)
  /\ \A i \in 1..MaxItems : WF_vars(i \in Items /\ RetryTimer(i))
  /\ \A i \in 1..MaxItems : WF_vars(i \in Items /\ (CallSucceeds(i) \/ CallFails(i)))
  /\ WF_vars(ProcessTask)
  /\ \A i \in 1..MaxItems :
       WF_vars(i \in Items /\ ~RaceSettled /\ (ItemSucceeds(i) \/ ItemFails(i)))
  /\ \A i \in 1..MaxItems : WF_vars(i \in Items /\ RetryDelayElapsed(i))
  /\ WF_vars(RaceResolves)
  /\ WF_vars(RefillSlot)
  /\ WF_vars(Execute)
  /\ WF_vars(RunWorkflow)
  /\ WF_vars(StepSucceeds \/ StepFails)

LiveSpec == Init /\ [][Next]_vars /\ Fairness

\* ======================= Properties =======================

\* number of capability calls of item i that have started and not settled
Outstanding(i) == (IF i \in awaited THEN 1 ELSE 0) + detached[i]

RECURSIVE SumOutstanding(_)
SumOutstanding(n) == IF n = 0 THEN 0 ELSE Outstanding(n) + SumOutstanding(n - 1)

\* calls of the whole queue that have started and not settled
OutstandingCalls == SumOutstanding(nItems)

\* the scenario of one always-failing item among always-succeeding ones
OneItemAlwaysFails == outcomes = "fixed" /\ alwaysFails \in Items

\* the scenario in which every call succeeds
AllCallsSucceed == outcomes = "fixed" /\ alwaysFails = 0

\* C1: with maxConcurrent >= 1 the number of queue items whose status is
\* 'processing' never exceeds config.maxConcurrent.
C1_ProcessingBounded ==
  (sys = "api" /\ maxConcurrent >= 1) =>
     CountStatus(status, "processing") <= maxConcurrent

\* C1 witness: every slot is taken by a processing item while a failed item
\* waits, pending, for its retry timer.
C1_Witness ==
  /\ sys = "api" /\ maxConcurrent >= 1
  /\ CountStatus(status, "processing") = maxConcurrent
  /\ \E i \in Items : status[i] = "pending" /\ timers[i] > 0

\* C2 (as claimed): the number of capability calls started and not yet settled
\* never exceeds config.maxConcurrent.
C2_OutstandingBounded ==
  (sys = "api" /\ maxConcurrent >= 1) => OutstandingCalls <= maxConcurrent

\* C3 (as claimed): an item marked 'failed' was attempted config.retryCount + 1
\* times and its retryCount field equals config.retryCount + 1.
C3_FailedAfterAllRetries ==
  sys = "api" =>
    \A i \in Items :
      status[i] = "failed" =>
        /\ attempts[i] = configRetryCount + 1
        /\ retryCount[i] = configRetryCount + 1

\* C4 (as claimed): a completed item has result set and error unset, a failed
\* item has error set and result unset.
C4_ResultXorError ==
  sys = "api" =>
    \A i \in Items :
      /\ status[i] = "completed" => (result[i] /\ ~error[i])
      /\ status[i] = "failed" => (error[i] /\ ~result[i])

\* C5: completedItems + failedItems <= totalItems in the BatchResult of
\* getBatchQueueStatus (now and as returned by processBatch*, when it is not null),
\* in updatedTask, in the task the parent holds and in every BatchTask passed to
\* onTaskUpdate.
C5_CountersBounded ==
  /\ LET r == GetBatchQueueStatus(hasQueue, status, error)
     IN ~r.isNull => r.completedItems + r.failedItems <= r.totalItems
  /\ (resolved /\ ~returned.isNull) =>
       returned.completedItems + returned.failedItems <= returned.totalItems
  /\ updatedTask.completedItems + updatedTask.failedItems <= updatedTask.totalItems
  /\ task.completedItems + task.failedItems <= task.totalItems
  /\ \A t \in taskUpdates : t.completedItems + t.failedItems <= t.totalItems

\* C5 witness: processTask has reported a task in which successes and failures
\* together account for every item.
C5_Witness ==
  /\ sys = "bp"
  /\ \E t \in taskUpdates :
       /\ t.completedItems >= 1 /\ t.failedItems >= 1
       /\ t.completedItems + t.failedItems = t.totalItems

\* C6 (as claimed): when the promise of processBatch* has resolved with a BatchResult no item is
\* 'pending' or 'processing' and the returned counters add up to totalItems.
C6_DrainedWhenResolved ==
  (sys = "api" /\ maxConcurrent >= 1 /\ resolved /\ ~returned.isNull) =>
     /\ \A i \in Items : status[i] \notin {"pending", "processing"}
     /\ returned.completedItems + returned.failedItems = returned.totalItems

\* C7 (as claimed): with N >= 1 items, maxConcurrent >= 1 and only succeeding
\* calls, processTask eventually reports the task COMPLETED with
\* completedItems = N, failedItems = 0, progress = 100, each item called once.
C7_AllSucceedCompletes ==
  (sys = "bp" /\ AllCallsSucceed /\ nItems >= 1
     /\ maxConcurrent >= 1 /\ maxConcurrentPlus = "0") =>
     <>(/\ task.status = "completed"
        /\ task.completedItems = nItems
        /\ task.failedItems = 0
        /\ task.progress = 100
        /\ \A i \in Items : bpCalls[i] = 1)

\* C8: with maxConcurrent >= 1, one always-failing item and only succeeding
\* others, getBatchQueueStatus eventually reports completedItems = totalItems - 1
\* and failedItems = 1 and stays there, when processBatch* found an AI source and
\* for as long as the queue is not cleared.
C8_PartialFailureDrains ==
  (sys = "api" /\ OneItemAlwaysFails /\ maxConcurrent >= 1) =>
     <>[](LET r == GetBatchQueueStatus(hasQueue, status, error)
          IN (~r.isNull /\ poll # "rejected") =>
               (r.completedItems = r.totalItems - 1 /\ r.failedItems = 1))

\* C8 witness: more items than slots, the failing item has used a retry and is
\* failed, every other item is completed.
C8_Witness ==
  /\ sys = "api" /\ OneItemAlwaysFails /\ maxConcurrent >= 1
  /\ nItems > maxConcurrent
  /\ retryCount[alwaysFails] >= 2
  /\ status[alwaysFails] = "failed"
  /\ \A i \in Items \ {alwaysFails} : status[i] = "completed"

\* the task processTask has passed to onTaskComplete: COMPLETED, no items, progress 100
ReportedEmptyCompleted ==
  /\ bpPc = "done" /\ bpNotified = "complete"
  /\ \E t \in taskUpdates : t.status = "completed" /\ t.totalItems = 0 /\ t.progress = 100
  /\ \A t \in taskUpdates : t.status # "failed"

ReportedEmptyFailed ==
  /\ bpPc = "done" /\ bpNotified = "failed"
  /\ \E t \in taskUpdates : t.status = "failed" /\ t.totalItems = 0
  /\ \A t \in taskUpdates : t.status # "completed"

C10_InvalidConcurrencyRejected ==
  (nItems >= 1 /\ maxConcurrent < 1 /\ maxConcurrentPlus # "2^32") =>
     /\ ~resolved
     /\ poll # "timer"
     /\ task.status # "completed"
     /\ \A t \in taskUpdates : t.status # "completed"

\* C11: a failed capability call is recorded in the item's error field, a
\* 'failed' item carries its error and is counted in failedItems of an existing
\* queue, the promise of processBatch* resolves when its pass ends (it rejects
\* only for a missing queue or a missing AI source, before any call), and
\* the failures of other items never keep an item from being attempted: with
\* maxConcurrent >= 1 every item's first call eventually settles once processBatch*
\* has found the queue and an AI source.
C11_FailureContained ==
  /\ [](sys = "api" =>
          /\ \A i \in Items : retryCount[i] > 0 => error[i]
          /\ \A i \in Items : status[i] = "failed" => error[i]
          /\ hasQueue => GetBatchQueueStatus(hasQueue, status, error).failedItems
                           = Cardinality({i \in Items : status[i] = "failed"})
          /\ poll \in {"timer", "stopped"} => resolved
          /\ poll = "rejected" => \A i \in Items : attempts[i] = 0)
  /\ <>((sys = "api" /\ maxConcurrent >= 1 /\ poll # "rejected") =>
          \A j \in Items : status[j] = "completed" \/ retryCount[j] > 0)

\* C11 witness: an item has exhausted its retries and is failed, and an item
\* behind it in the queue has been completed since the promise resolved.
C11_Witness ==
  /\ sys = "api" /\ resolved
  /\ \E i, j \in Items :
       /\ i < j
       /\ status[i] = "failed" /\ error[i] /\ retryCount[i] >= 2
       /\ status[j] = "completed" /\ ~error[j]
  /\ GetBatchQueueStatus(hasQueue, status, error).failedItems >= 1

\* C12 (as claimed): while the queue is paused no item moves from 'pending' to
\* 'processing'.
C12_PauseStopsDispatch ==
  [][(sys = "api" /\ paused /\ paused') =>
        \A i \in Items : ~(status[i] = "pending" /\ status'[i] = "processing")]_vars

\* statuses in which a task is finished
TerminalTask == {"completed", "failed", "cancelled"}

\* C13 (as claimed): once the task is CANCELLED no onTaskUpdate changes its status,
\* completedItems, failedItems or progress, and no further item is dispatched.
C13_CancelledFrozen ==
  [][(sys = "bp" /\ task.status = "cancelled") =>
        /\ task'.status = "cancelled"
        /\ task'.completedItems = task.completedItems
        /\ task'.failedItems = task.failedItems
        /\ task'.progress = task.progress
        /\ bpCalls' = bpCalls]_vars

\* C14 (as claimed): onAllTasksComplete is only invoked when every known task is
\* completed, failed or cancelled.
C14_AllCompleteOnlyWhenTerminal ==
  sys = "bp" => allTasksComplete \subseteq TerminalTask

\* C15 (as claimed): a call of startProcessing made while not processing and with a
\* PENDING task makes the task RUNNING and invokes processTask for it.
C15_StartRunsPendingTasks ==
  [][(sys = "bp" /\ startCalls' = startCalls + 1 /\ ~isProcessing /\ task.status = "pending") =>
        /\ task'.status = "running"
        /\ bpPc' # "idle"]_vars

\* a workflow execution: started by execute, or runWorkflow applied to a WorkflowConfig
InWorkflow == sys \in {"wf", "runWorkflow"}

\* the elements of a sequence
Range(seq) == {seq[k] : k \in 1..Len(seq)}

\* the outputKey values of the steps with index in S
KeysOf(S) == {workflow.steps[j].outputKey : j \in S \cap (1..Len(workflow.steps))}

\* number of generateText calls made for step i
CallsOf(i) == Cardinality({c \in 1..Len(adapterCalls) : adapterCalls[c].step = i})

\* C16: no generateText call of a step starts unless every name in its dependencies
\* had an entry in execution.results; when one is missing the execution is 'failed'
\* with the missing-dependency error of that name, and neither that step nor a later
\* one has been dispatched. A run that ends before its last step without a failed
\* call ended that way.
C16_DependenciesGateDispatch ==
  InWorkflow =>
    /\ \A c \in 1..Len(adapterCalls) :
         Range(workflow.steps[adapterCalls[c].step].dependencies)
           \subseteq adapterCalls[c].previousResults
    /\ execution.error.kind = "dependency" =>
         /\ execution.status = "failed"
         /\ \E f \in 1..Len(workflow.steps) :
              /\ execution.error.dep \in Range(workflow.steps[f].dependencies)
              /\ execution.error.dep \notin DOMAIN execution.results
                   \/ execution.results[execution.error.dep] = ""
              /\ \A c \in 1..Len(adapterCalls) : adapterCalls[c].step < f
    /\ (wfPc = "done" /\ Len(adapterCalls) < Len(workflow.steps)
          /\ execution.error.kind # "step") =>
         execution.status = "failed" /\ execution.error.kind = "dependency"

C16_Witness ==
  /\ InWorkflow /\ execution.status = "failed"
  /\ execution.error.kind = "dependency"
  /\ Len(adapterCalls) = 2
  /\ workflow.steps[2].dependencies # <<>>

\* a step names among its dependencies the id or the outputKey of a later step,
\* and no earlier step has that outputKey
HasForwardReference(w) ==
  \E i, j \in 1..Len(w.steps) :
    /\ i < j
    /\ \E dep \in Range(w.steps[i].dependencies) :
         /\ dep \in {w.steps[j].id, w.steps[j].outputKey}
         /\ \A h \in 1..(i - 1) : w.steps[h].outputKey # dep

\* C17 (as claimed): a workflow with a forward-reference dependency is rejected
\* before any adapter call: no generateText call is ever made for it.
C17_ForwardReferenceRejectedUpFront ==
  (InWorkflow /\ HasForwardReference(workflow)) => adapterCalls = <<>>

\* the outputKey values of the steps of w are pairwise distinct
DistinctOutputKeys(w) ==
  \A i, j \in 1..Len(w.steps) : i # j => w.steps[i].outputKey # w.steps[j].outputKey

\* C18 (as claimed): when the execution is 'completed' the keys of execution.results
\* are exactly the outputKey values, one per declared step, and the prompt of each
\* step was rendered from the results of earlier steps only.
C18_CompletedResults ==
  (InWorkflow /\ execution.status = "completed") =>
    /\ DOMAIN execution.results = KeysOf(1..Len(workflow.steps))
    /\ Cardinality(DOMAIN execution.results) = Len(workflow.steps)
    /\ \A c \in 1..Len(adapterCalls) :
         adapterCalls[c].previousResults \subseteq KeysOf(1..(adapterCalls[c].step - 1))

\* C18 (amended): when the execution is 'completed' the keys of execution.results
\* are exactly the outputKey values of the steps and the prompt of each step was
\* rendered from the results of earlier steps only; results has one entry per
\* declared step exactly when the outputKey values are pairwise distinct (a step
\* with the outputKey of an earlier step overwrites that entry).
C18_CompletedResultsPerKey ==
  (InWorkflow /\ execution.status = "completed") =>
    /\ DOMAIN execution.results = KeysOf(1..Len(workflow.steps))
    /\ DistinctOutputKeys(workflow) <=>
         Cardinality(DOMAIN execution.results) = Len(workflow.steps)
    /\ \A c \in 1..Len(adapterCalls) :
         adapterCalls[c].previousResults \subseteq KeysOf(1..(adapterCalls[c].step - 1))

\* C18 witness: a workflow of distinct outputKeys with a dependency has completed,
\* every step called.
C18_Witness ==
  /\ InWorkflow /\ execution.status = "completed"
  /\ DistinctOutputKeys(workflow)
  /\ Len(workflow.steps) >= 2
  /\ \E i \in 1..Len(workflow.steps) : workflow.steps[i].dependencies # <<>>
  /\ Len(adapterCalls) = Len(workflow.steps)

\* C19 (as claimed): a run of a preset workflow in which no generateText call failed
\* and every result is a non-empty string ends 'completed' with progress 100, a
\* result for every step and every step dispatched once, in list order.
C19_PresetsComplete ==
  (/\ InWorkflow /\ workflow \in DEFAULT_WORKFLOWS
   /\ wfPc = "done" /\ execution.error.kind # "step"
   /\ \A k \in DOMAIN execution.results : execution.results[k] # "") =>
    /\ execution.status = "completed"
    /\ execution.progress = 100
    /\ DOMAIN execution.results = KeysOf(1..Len(workflow.steps))
    /\ Len(adapterCalls) = Len(workflow.steps)
    /\ \A c \in 1..Len(adapterCalls) : adapterCalls[c].step = c

\* C20: a run that ended 'failed' other than by a missing dependency ended at the
\* failed call of its last dispatched step i: execution.error is the message of
\* that call, generateText was called once for step i, no later step was
\* dispatched, and execution.results holds the outputs of the steps before i only.
C20_StepFailureStopsRun ==
  (/\ InWorkflow /\ wfPc = "done"
   /\ execution.status = "failed" /\ execution.error.kind # "dependency") =>
    /\ adapterCalls # <<>>
    /\ LET i == adapterCalls[Len(adapterCalls)].step
       IN /\ execution.error.kind = "step" /\ execution.error.step = i
          /\ CallsOf(i) = 1
          /\ \A c \in 1..Len(adapterCalls) : adapterCalls[c].step <= i
          /\ DOMAIN execution.results = KeysOf(1..(i - 1))

C20_Witness ==
  /\ InWorkflow /\ execution.status = "failed"
  /\ execution.error.kind = "step" /\ execution.error.step = 2
  /\ Len(workflow.steps) = 3
  /\ DOMAIN execution.results = {workflow.steps[1].outputKey}

\* C21 (as claimed): once pause or cancel has taken effect no further step is
\* dispatched to the adapter, a paused execution stays paused until it is resumed or
\* cancelled, and a cancelled execution stays 'failed' with the user-cancellation error.
C21_PauseCancelStopDispatch ==
  /\ [][(InWorkflow /\ (execution.status = "paused" \/ execution.error.kind = "cancel")) =>
          adapterCalls' = adapterCalls]_vars
  /\ [][(InWorkflow /\ execution.status = "paused") =>
          (execution'.status = "paused" \/ execution'.error.kind = "cancel")]_vars
  /\ [][(InWorkflow /\ execution.error.kind = "cancel") =>
          (execution'.status = "failed" /\ execution'.error.kind = "cancel")]_vars

\* C29: the execution statuses 'completed' and 'failed' are absorbing, whether the
\* execution failed by a step error, a missing dependency or cancel, and a
\* 'completed' execution has no error.
C29_TerminalStatusAbsorbing ==
  /\ [][(InWorkflow /\ execution.status \in {"completed", "failed"}) =>
          execution'.status = execution.status]_vars
  /\ []((InWorkflow /\ execution.status = "completed") => execution.error = NoError)

\* C29 witness: the execution has been cancelled while the call of its first step
\* is in flight: it is 'failed' and runWorkflow has still to resume.
C29_Witness ==
  /\ sys = "wf" /\ wfPc = "awaiting"
  /\ execution.status = "failed"
  /\ execution.error.kind = "cancel"
  /\ Len(adapterCalls) = 1

\* C30 (as claimed): an execution that ended 'failed' because of a step points at
\* that step: after a failed call of step i (1-based) currentStep is i - 1, and after
\* a failed dependency check of the step that follows the last dispatched one
\* currentStep is the index of that step.
C30_CurrentStepAtFailure ==
  (InWorkflow /\ wfPc = "done" /\ execution.status = "failed") =>
    /\ execution.error.kind = "step" => execution.currentStep = execution.error.step - 1
    /\ execution.error.kind = "dependency" => execution.currentStep = Len(adapterCalls)

\* the keys whose placeholder occurs in a template
PlaceholderKeys(text) ==
  {k \in {"content", "title", "topic", "x"} : Placeholder(k) \in Range(text)}

\* a template with the placeholder of every key of res, then of par, replaced by
\* that key's value as it is, every other token kept
RECURSIVE Substituted(_, _, _)
Substituted(text, par, res) ==
  IF text = <<>> THEN <<>>
  ELSE LET tok == Head(text)
           keys == {k \in PlaceholderKeys(<<tok>>) : k \in DOMAIN res \cup DOMAIN par}
           here == IF keys = {} THEN <<tok>>
                   ELSE LET k == CHOOSE x \in keys : TRUE
                        IN IF k \in DOMAIN res THEN res[k] ELSE par[k]
       IN here \o Substituted(Tail(text), par, res)

\* C23 (as claimed): for a template whose placeholders all name keys published by
\* earlier steps, the prompt is the template with every {key} replaced by the
\* string form of results[key].
C23_PublishedKeysSubstituted ==
  (/\ sys = "executeStep" /\ rendered
   /\ PlaceholderKeys(template) \subseteq DOMAIN previousResults) =>
    prompt = Substituted(template, params, previousResults)

\* C24 (as claimed): for a template none of whose placeholders names a published
\* key, a placeholder of a key that is not a param either stays in the prompt as
\* the literal {key}, also for 'content' and 'title', and the placeholder of a
\* param is replaced by the param's value.
C24_UnresolvedPlaceholdersKept ==
  (/\ sys = "executeStep" /\ rendered
   /\ PlaceholderKeys(template) \cap DOMAIN previousResults = {}) =>
    prompt = Substituted(template, params, previousResults)

\* C27 (as claimed): while a step is in flight progress is round(i / totalSteps *
\* 100), it never decreases, and it is 100 only when the execution is 'completed'
\* with the result of every step stored; the value computed when a step begins
\* is below 100.
C27_ProgressTracksSteps ==
  /\ [][InWorkflow => execution'.progress >= execution.progress]_vars
  /\ []((InWorkflow /\ wfPc = "awaiting") =>
          execution.progress = Progress(execution.currentStep, Len(workflow.steps)))
  /\ []((InWorkflow /\ execution.progress = 100) =>
          /\ execution.status = "completed"
          /\ DOMAIN execution.results = KeysOf(1..Len(workflow.steps)))
  /\ []((sys = "progress" /\ stepProgress # 0 - 1) => stepProgress < 100)

\* C22 (as claimed): an item moves from 'pending' to 'processing' only when every
\* item before it in the queue is not 'pending' or is selected in the same pass.
C22_InsertionOrder ==
  [][sys = "api" =>
       \A i \in Items :
         (status[i] = "pending" /\ status'[i] = "processing") =>
           \A j \in 1..(i - 1) : status[j] = "pending" => status'[j] = "processing"]_vars

\* C25 (as claimed): every item gets at most config.retryCount + 1 capability
\* calls, and never two outstanding calls at once.
C25_OncePerAttempt ==
  sys = "api" =>
    \A i \in Items : attempts[i] <= configRetryCount + 1 /\ Outstanding(i) <= 1

\* C26 (as claimed): while the retryDelay timer of a failed item is pending, a
\* capability call for that item starts only by that timer firing.
C26_RetryWaitsForDelay ==
  [][sys = "api" =>
       \A i \in Items :
         (timers[i] > 0 /\ attempts'[i] > attempts[i]) => timers'[i] < timers[i]]_vars

\* C28 (as claimed): once an item is 'completed' or 'failed' its status, result,
\* error and retryCount never change.
C28_ItemTerminalAbsorbing ==
  [][sys = "api" =>
       \A i \in Items :
         status[i] \in {"completed", "failed"} =>
           /\ status'[i] = status[i]
           /\ result'[i] = result[i]
           /\ error'[i] = error[i]
           /\ retryCount'[i] = retryCount[i]]_vars

====
